---- MODULE Spec2Model ----
(***************************************************************************)
(* Model of lib/crypto/trc.py: the TRC document (class TRC), its decoding  *)
(* (parse), construction (from_values), rendering (get_trc_dict, __str__), *)
(* key extraction (get_public_key) and signature verification (verify).    *)
(*                                                                         *)
(* Representation of Python values:                                        *)
(*   - the TRC object is a record of its 15 attributes;                    *)
(*   - core_isps, root_cas, core_ads, policies are functions from subject  *)
(*     names to blobs (only membership, lookup and sorted rendering are    *)
(*     ever applied to them);                                              *)
(*   - signatures is a sequence of <<signer, signature string>> pairs with *)
(*     distinct signers: a Python dict in its iteration order, which is    *)
(*     what `for signer in self.signatures` observes;                      *)
(*   - a blob is a tuple of tokens, outermost encoding first:              *)
(*     <<"b64","json","subject_pub_key","b64","k1">> is the base64 text of *)
(*     the JSON object {"subject_pub_key": base64(key bytes k1)};          *)
(*     a token that is not the expected one makes the decoder raise;       *)
(*   - a signature string is a record [b64, key, msg]: when b64 is TRUE    *)
(*     the base64 text of the signature made with the secret key of `key`  *)
(*     over the message `msg`, otherwise a text with incorrect padding;    *)
(*   - the outcome of a call is [kind |-> "return" | "raise", val |-> ..]. *)
(***************************************************************************)
EXTENDS Integers, Sequences, FiniteSets, TLC

VARIABLES trc, out, prev

vars == <<trc, out, prev>>

\* ---------------------------------------------------------------- bounds
MaxInt == 1

Ints == 0..MaxInt

\* The clock reading int(time.time()) stamps a document with.
Times == {MaxInt}

\* ------------------------------------------------------------ input sets
Subjects == {"AD1", "AD2"}

\* Subjects in lexicographic order (the order sort_keys=True renders them).
SubjectOrder == <<"AD1", "AD2">>

\* The key pair each subject owns.
KeyOf(s) == IF s = "AD1" THEN "k1" ELSE "k2"

OtherKey(k) == IF k = "k1" THEN "k2" ELSE "k1"

Strs == {"", "a"}

\* A well-formed certificate blob for a key.
Cert(k) == <<"b64", "json", "subject_pub_key", "b64", k>>

\* Malformed certificate blobs: incorrect base64 padding, base64 of text
\* that is not JSON, JSON object without subject_pub_key, subject_pub_key
\* that is not base64.
MalformedCerts ==
    { <<"pad">>,
      <<"b64", "txt">>,
      <<"b64", "json", "issuer", "b64", "k1">>,
      <<"b64", "json", "subject_pub_key", "pad">> }

CertsFor(s) == {Cert(KeyOf(s))} \cup MalformedCerts

\* All core_ads registries over Subjects.
CoreAdsInputs ==
    UNION { { f \in [D -> UNION {CertsFor(s) : s \in Subjects}] :
                \A s \in D : f[s] \in CertsFor(s) } : D \in SUBSET Subjects }

\* Values of the maps that are passed through unmodified.
MapInputs == { <<>>, [s \in {"AD1"} |-> Cert("k1")] }

\* ---------------------------------------------------------- field tables
\* Attributes in the order __init__, parse and from_values assign them.
FieldOrder ==
    << "isd_id", "version", "time", "core_quorum", "trc_quorum",
       "core_isps", "root_cas", "core_ads", "policies",
       "registry_server_addr", "registry_server_cert",
       "root_dns_server_addr", "root_dns_server_cert",
       "trc_server_addr", "signatures" >>

\* The same names in the order json.dumps(sort_keys=True) renders them.
SortedKeys ==
    << "core_ads", "core_isps", "core_quorum", "isd_id", "policies",
       "registry_server_addr", "registry_server_cert", "root_cas",
       "root_dns_server_addr", "root_dns_server_cert", "signatures",
       "time", "trc_quorum", "trc_server_addr", "version" >>

AllFields == { FieldOrder[i] : i \in DOMAIN FieldOrder }

IntFields == {"isd_id", "version", "time", "core_quorum", "trc_quorum"}

StrFields ==
    {"registry_server_addr", "registry_server_cert", "root_dns_server_addr",
     "root_dns_server_cert", "trc_server_addr"}

IndexOf(k) == CHOOSE i \in DOMAIN FieldOrder : FieldOrder[i] = k

\* ------------------------------------------------------- ordered dicts
SigKeys(sigs) == { sigs[i][1] : i \in DOMAIN sigs }

SigGet(sigs, s) == sigs[CHOOSE i \in DOMAIN sigs : sigs[i][1] = s][2]

\* Python dict equality: same keys, same values, order ignored.
DictEq(a, b) ==
    /\ SigKeys(a) = SigKeys(b)
    /\ \A s \in SigKeys(a) : SigGet(a, s) = SigGet(b, s)

\* ------------------------------------------------------------ __init__
ZeroDoc ==
    [ isd_id |-> 0, version |-> 0, time |-> 0, core_quorum |-> 0,
      trc_quorum |-> 0, core_isps |-> <<>>, root_cas |-> <<>>,
      core_ads |-> <<>>, policies |-> <<>>,
      registry_server_addr |-> "", registry_server_cert |-> "",
      root_dns_server_addr |-> "", root_dns_server_cert |-> "",
      trc_server_addr |-> "", signatures |-> <<>> ]

Return(v) == [kind |-> "return", val |-> v]

Raise(e) == [kind |-> "raise", val |-> e]

\* ------------------------------------------------------- get_trc_dict
\* Variant: the signatures section is returned whatever the flag says.
get_trc_dict_always(d, with_signatures) ==
    [k \in AllFields |-> d[k]]

get_trc_dict(d, with_signatures) ==
    LET keys == IF with_signatures THEN AllFields
                ELSE AllFields \ {"signatures"}
    IN  [k \in keys |-> d[k]]

\* ------------------------------------------------------------ json.dumps
\* A rendered object is the sequence of its <<key, value>> pairs in sorted
\* key order; a rendered value carries its JSON type.
DumpsMap(m) ==
    LET ks == SelectSeq(SubjectOrder, LAMBDA s : s \in DOMAIN m)
    IN  [i \in 1..Len(ks) |-> <<ks[i], m[ks[i]]>>]

DumpsDict(sigs) ==
    LET ks == SelectSeq(SubjectOrder, LAMBDA s : s \in SigKeys(sigs))
    IN  [i \in 1..Len(ks) |-> <<ks[i], SigGet(sigs, ks[i])>>]

DumpsValue(k, v) ==
    IF k \in IntFields THEN <<"int", v>>
    ELSE IF k \in StrFields THEN <<"str", v>>
    ELSE IF k = "signatures" THEN <<"obj", DumpsDict(v)>>
    ELSE <<"obj", DumpsMap(v)>>

json_dumps(dict) ==
    LET ks == SelectSeq(SortedKeys, LAMBDA k : k \in DOMAIN dict)
    IN  [i \in 1..Len(ks) |-> <<ks[i], DumpsValue(ks[i], dict[ks[i]])>>]

\* ------------------------------------------------------------- __str__
\* Variant: the rendering leaves the signatures section out.
str_unsigned(d) == json_dumps([k \in AllFields \ {"signatures"} |-> d[k]])

str(d) == json_dumps(get_trc_dict(d, TRUE))

\* The message verify() submits: the rendering without signatures.
data_to_verify(d) == json_dumps(get_trc_dict(d, FALSE))

\* ------------------------------------------------------------ decoders
\* base64.standard_b64decode on a text: the empty text decodes to no
\* bytes, a base64 text to what it wraps, anything else has incorrect
\* padding (binascii.Error, a ValueError).
b64decode(t) ==
    IF t = <<>> THEN Return(<<>>)
    ELSE IF Head(t) = "b64" THEN Return(Tail(t))
    ELSE Raise("binascii.Error")

\* json.loads on a text: <<"json", field, value...>> is the object with
\* the single member field: "value", <<"json">> the empty object; any
\* other text is not JSON (ValueError).
json_loads(t) ==
    IF t # <<>> /\ Head(t) = "json"
    THEN Return(IF Len(t) = 1 THEN <<>>
                ELSE [f \in {t[2]} |-> SubSeq(t, 3, Len(t))])
    ELSE Raise("ValueError")

\* base64 decoding of a signature string to the raw signature.
b64decode_sig(s) ==
    IF s.b64 THEN Return([key |-> s.key, msg |-> s.msg])
    ELSE Raise("binascii.Error")

\* ------------------------------------------------------ get_public_key
\* Variant: the registry is indexed without the membership test, so an
\* absent subject raises.
get_public_key_unchecked(d, subject) ==
    IF subject \notin DOMAIN d.core_ads THEN Raise("KeyError")
    ELSE
      LET text == b64decode(d.core_ads[subject])
      IN  IF text.kind = "raise" THEN text
          ELSE
            LET subject_cert == json_loads(text.val)
            IN  IF subject_cert.kind = "raise" THEN subject_cert
                ELSE IF "subject_pub_key" \notin DOMAIN subject_cert.val
                THEN Raise("KeyError")
                ELSE
                  LET public_key ==
                        b64decode(subject_cert.val["subject_pub_key"])
                  IN  IF public_key.kind = "raise" THEN public_key
                      ELSE Return([type |-> "bytes",
                                   data |-> public_key.val])

get_public_key(d, subject) ==
    IF subject \notin DOMAIN d.core_ads
    THEN Return([type |-> "str", data |-> <<>>])
    ELSE
      LET text == b64decode(d.core_ads[subject])
      IN  IF text.kind = "raise" THEN text
          ELSE
            LET subject_cert == json_loads(text.val)
            IN  IF subject_cert.kind = "raise" THEN subject_cert
                ELSE IF "subject_pub_key" \notin DOMAIN subject_cert.val
                THEN Raise("KeyError")
                ELSE
                  LET public_key ==
                        b64decode(subject_cert.val["subject_pub_key"])
                  IN  IF public_key.kind = "raise" THEN public_key
                      ELSE Return([type |-> "bytes",
                                   data |-> public_key.val])

\* --------------------------------------------- crypto_sign_ed25519_open
\* The signature primitive (lib.crypto.nacl): opens signature || message
\* under a public key; returns the message when the signature was made
\* over exactly that message with the matching secret key, raises
\* otherwise.
crypto_sign_ed25519_open(signature, public_key) ==
    IF /\ public_key.type = "bytes"
       /\ public_key.data = <<signature.sig.key>>
       /\ signature.sig.msg = signature.msg
    THEN Return(signature.msg)
    ELSE Raise("ValueError")

\* --------------------------------------------------------------- verify
RECURSIVE verify_from_any(_, _, _)
\* Variant: the loop returns True at the first signature the primitive
\* accepts instead of going on to the next signer.
verify_from_any(d, data, i) ==
    IF i > Len(d.signatures) THEN Return(TRUE)
    ELSE
      LET signer == d.signatures[i][1]
      IN  IF signer \notin DOMAIN d.core_ads THEN Return(FALSE)
          ELSE
            LET public_key == get_public_key(d, signer)
            IN  IF public_key.kind = "raise" THEN public_key
                ELSE
                  LET sig_to_verify ==
                        b64decode_sig(SigGet(d.signatures, signer))
                  IN  IF sig_to_verify.kind = "raise" THEN sig_to_verify
                      ELSE
                        LET signature == [sig |-> sig_to_verify.val,
                                          msg |-> data]
                        IN  IF crypto_sign_ed25519_open(
                                   signature, public_key.val).kind = "raise"
                            THEN Return(FALSE)
                            ELSE Return(TRUE)

RECURSIVE verify_from(_, _, _)
\* The loop of verify() from the i-th entry of signatures on.
verify_from(d, data, i) ==
    IF i > Len(d.signatures) THEN Return(TRUE)
    ELSE
      LET signer == d.signatures[i][1]
      IN  IF signer \notin DOMAIN d.core_ads THEN Return(FALSE)
          ELSE
            LET public_key == get_public_key(d, signer)
            IN  IF public_key.kind = "raise" THEN public_key
                ELSE
                  LET sig_to_verify ==
                        b64decode_sig(SigGet(d.signatures, signer))
                  IN  IF sig_to_verify.kind = "raise" THEN sig_to_verify
                      ELSE
                        LET signature == [sig |-> sig_to_verify.val,
                                          msg |-> data]
                        IN  IF crypto_sign_ed25519_open(
                                   signature, public_key.val).kind = "raise"
                            THEN Return(FALSE)
                            ELSE verify_from(d, data, i + 1)

\* Variant: fewer signatures than core_quorum are rejected before the loop.
verify_quorum(d) ==
    IF Len(d.signatures) < d.core_quorum THEN Return(FALSE)
    ELSE verify_from(d, data_to_verify(d), 1)

verify(d) == verify_from(d, data_to_verify(d), 1)

\* ---------------------------------------------------------------- parse
\* What open(trc_file) / json.load meet: no file, text that is not JSON,
\* a JSON array, or a JSON object given by its rendered members.
NoFile == [kind |-> "nofile", text |-> <<>>]

Garbage == [kind |-> "garbage", text |-> <<>>]

Array == [kind |-> "array", text |-> <<>>]

Object(text) == [kind |-> "object", text |-> text]

TextKeys(text) == { text[i][1] : i \in DOMAIN text }

\* A rendering with the member k removed.
Without(text, k) == SelectSeq(text, LAMBDA p : p[1] # k)

\* json.load of one rendered value of the member k.
LoadsValue(k, tv) ==
    IF tv[1] = "obj" /\ k # "signatures"
    THEN [s \in TextKeys(tv[2]) |->
            tv[2][CHOOSE i \in DOMAIN tv[2] : tv[2][i][1] = s][2]]
    ELSE tv[2]

\* json.load of a rendered object.
json_load(text) ==
    [k \in TextKeys(text) |->
        LoadsValue(k, text[CHOOSE i \in DOMAIN text : text[i][1] = k][2])]

\* The number of assignments of parse() that succeed on the decoded object
\* j: all of them, or those before the first key j lacks.
Assigned(j) ==
    IF \A i \in DOMAIN FieldOrder : FieldOrder[i] \in DOMAIN j
    THEN Len(FieldOrder)
    ELSE (CHOOSE i \in DOMAIN FieldOrder :
            /\ FieldOrder[i] \notin DOMAIN j
            /\ \A m \in 1..(i - 1) : FieldOrder[m] \in DOMAIN j) - 1

\* The object after the first n assignments of parse() from j.
Assign(d, j, n) ==
    [k \in AllFields |-> IF IndexOf(k) <= n THEN j[k] ELSE d[k]]

\* The key lookups and assignments of parse() on the decoded object j, of
\* which the first n succeed.
ParseObject(d, j, n) ==
    [doc |-> Assign(d, j, n),
     res |-> IF n = Len(FieldOrder) THEN Return("None")
             ELSE Raise("KeyError")]

\* parse(trc_file) on the object d: the object afterwards and the outcome.
parse(d, src) ==
    IF src.kind = "nofile"
    THEN [doc |-> d, res |-> Raise("FileNotFoundError")]
    ELSE IF src.kind = "garbage"
    THEN [doc |-> d, res |-> Return("None")]
    ELSE IF src.kind = "array"
    THEN [doc |-> d, res |-> Raise("TypeError")]
    ELSE ParseObject(d, json_load(src.text), Assigned(json_load(src.text)))

\* ----------------------------------------------------------- from_values
from_values(isd_id, version, core_quorum, trc_quorum, core_isps, root_cas, core_ads, policies, registry_server_addr, registry_server_cert, root_dns_server_addr, root_dns_server_cert, trc_server_addr, signatures, now) ==
    [ isd_id |-> isd_id, version |-> version, time |-> now,
      core_quorum |-> core_quorum, trc_quorum |-> trc_quorum,
      core_isps |-> core_isps, root_cas |-> root_cas,
      core_ads |-> core_ads, policies |-> policies,
      registry_server_addr |-> registry_server_addr,
      registry_server_cert |-> registry_server_cert,
      root_dns_server_addr |-> root_dns_server_addr,
      root_dns_server_cert |-> root_dns_server_cert,
      trc_server_addr |-> trc_server_addr, signatures |-> signatures ]

\* --------------------------------------------------------------- inputs
\* The signature strings a signer s may contribute for the message m: made
\* with its own key over m, made with another key over m, made with its own
\* key over another message, and a text that is not base64.
SigsFor(s, m) ==
    { [b64 |-> TRUE, key |-> KeyOf(s), msg |-> m],
      [b64 |-> TRUE, key |-> OtherKey(KeyOf(s)), msg |-> m],
      [b64 |-> TRUE, key |-> KeyOf(s), msg |-> <<>>],
      [b64 |-> FALSE, key |-> KeyOf(s), msg |-> <<>>] }

\* The iteration orders of the signers of a signatures dict.
SignerOrders ==
    { o \in UNION { [1..n -> Subjects] : n \in 0..Cardinality(Subjects) } :
        \A i, j \in DOMAIN o : i # j => o[i] # o[j] }

\* The signatures dicts over the message m.
SignaturesInputs(m) ==
    UNION { { [i \in DOMAIN o |-> <<o[i], c[i]>>] :
                c \in { c \in [DOMAIN o -> UNION {SigsFor(s, m) : s \in Subjects}] :
                          \A i \in DOMAIN o : c[i] \in SigsFor(o[i], m) } } :
            o \in SignerOrders }

\* The sources parse() is given: no file, malformed text, a JSON array, the
\* rendering of the document d, and that rendering without one member.
Sources(d) ==
    LET text == str(d)
    IN  {NoFile, Garbage, Array, Object(text)}
            \cup { Object(Without(text, k)) : k \in AllFields }

\* The values an attribute can be assigned.
FieldInputs(k) ==
    IF k \in IntFields THEN Ints
    ELSE IF k \in StrFields THEN Strs
    ELSE IF k = "core_ads" THEN CoreAdsInputs
    ELSE MapInputs

\* ---------------------------------------------------------------- state
Outcome(op, arg, res) ==
    [op |-> op, arg |-> arg, kind |-> res.kind, val |-> res.val]

\* The caller holds an object unless the constructor raised.
Alive == ~(out.op = "parse" /\ out.kind = "raise")

Init ==
    /\ trc = ZeroDoc
    /\ out = Outcome("init", "None", Return("None"))
    /\ prev = ZeroDoc

\* TRC()
Construct ==
    /\ trc' = ZeroDoc
    /\ out' = Outcome("init", "None", Return("None"))
    /\ prev' = ZeroDoc

\* TRC(trc_file): __init__ resets every attribute and calls parse() on a
\* source derived from the document the caller held (its rendering, whole
\* or with one member removed, or an unreadable source); prev keeps that
\* document.
ParseFile ==
    /\ Alive
    /\ \E src \in Sources(trc) :
         \E r \in {parse(ZeroDoc, src)} :
           /\ trc' = r.doc
           /\ out' = Outcome("parse", src, r.res)
           /\ prev' = trc

\* TRC.from_values(...): a class method, it builds a new object whatever
\* the caller held before; it is taken from the state TRC() leaves, which
\* Construct reaches from every state.  The signatures handed in are drawn
\* over the message of the document being built, and the two quorums are
\* drawn together.
FromValues ==
    /\ out.op = "init"
    /\ \E quorum \in Ints, core_ads \in CoreAdsInputs, now \in Times :
         LET unsigned == from_values(1, 1, quorum, MaxInt - quorum,
                                     [s \in {"AD1"} |-> Cert("k1")],
                                     [s \in {"AD2"} |-> Cert("k2")],
                                     core_ads, <<>>, "a", "a", "a", "a", "a",
                                     <<>>, now)
         IN  \E signatures \in SignaturesInputs(data_to_verify(unsigned)) :
               /\ trc' = [unsigned EXCEPT !.signatures = signatures]
               /\ out' = Outcome("from_values", "None", Return("None"))
               /\ prev' = ZeroDoc

\* trc.get_trc_dict(with_signatures)
GetTrcDict ==
    /\ Alive
    /\ \E with_signatures \in BOOLEAN :
         out' = Outcome("get_trc_dict", with_signatures,
                        Return(get_trc_dict(trc, with_signatures)))
    /\ prev' = ZeroDoc
    /\ UNCHANGED trc

\* trc.get_public_key(subject)
GetPublicKey ==
    /\ Alive
    /\ \E subject \in Subjects :
         out' = Outcome("get_public_key", subject,
                        get_public_key(trc, subject))
    /\ prev' = ZeroDoc
    /\ UNCHANGED trc

\* trc.verify(); arg records whether it follows an attribute assignment.
Verify ==
    /\ Alive
    /\ out' = Outcome("verify",
                      IF out.op = "setattr" THEN "tampered" ELSE "None",
                      verify(trc))
    /\ prev' = ZeroDoc
    /\ UNCHANGED trc

\* str(trc)
Str ==
    /\ Alive
    /\ out' = Outcome("str", "None", Return(str(trc)))
    /\ prev' = ZeroDoc
    /\ UNCHANGED trc

\* trc.<k> = v for an attribute other than signatures, on a document that
\* carries signatures and has just verified.
SetAttr ==
    /\ Alive
    /\ out.op = "verify" /\ out.kind = "return" /\ out.val = TRUE
    /\ trc.signatures # <<>>
    /\ \E k \in AllFields \ {"signatures"} :
         \E v \in FieldInputs(k) \ {trc[k]} :
           /\ trc' = [trc EXCEPT ![k] = v]
           /\ out' = Outcome("setattr", k, Return("None"))
    /\ prev' = ZeroDoc

Next ==
    \/ Construct
    \/ ParseFile
    \/ FromValues
    \/ GetTrcDict
    \/ GetPublicKey
    \/ Verify
    \/ Str
    \/ SetAttr

Spec == Init /\ [][Next]_vars

\* =============================================================== claims
\* Every certificate of core_ads and every signature string decodes.
WellFormed(d) ==
    /\ \A s \in DOMAIN d.core_ads : d.core_ads[s] \notin MalformedCerts
    /\ \A i \in DOMAIN d.signatures : d.signatures[i][2].b64

\* The primitive accepts the entry of signer s over the message without
\* signatures, under the key of the signer's own core_ads entry.
Accepts(d, s) ==
    /\ s \in DOMAIN d.core_ads
    /\ crypto_sign_ed25519_open(
          [sig |-> b64decode_sig(SigGet(d.signatures, s)).val,
           msg |-> json_dumps([k \in AllFields \ {"signatures"} |-> d[k]])],
          get_public_key(d, s).val).kind = "return"

\* C1: on a document whose core_ads certificates and signature strings are
\* well-formed, verify() returns True exactly when every signer is a key
\* of core_ads and the primitive accepts its signature over the message
\* without signatures under the key of its own core_ads entry; the quorum
\* fields play no part.
C1_VerifyIffAllSignersValid ==
    (out.op = "verify" /\ WellFormed(trc)) =>
        /\ out.kind = "return"
        /\ (out.val = TRUE) <=> (\A s \in SigKeys(trc.signatures) : Accepts(trc, s))

\* C1 witness: verify() accepted two well-formed signatures of a document
\* whose core_quorum is 0.
C1_Witness ==
    /\ out.op = "verify" /\ out.kind = "return" /\ out.val = TRUE
    /\ WellFormed(trc)
    /\ Len(trc.signatures) = 2
    /\ trc.core_quorum = 0

\* C2 (as claimed): verify() always ends by returning a boolean; no failure
\* met while processing a signer escapes as an exception.
C2_VerifyAlwaysReturnsBool ==
    out.op = "verify" => (out.kind = "return" /\ out.val \in BOOLEAN)

\* C3 (as claimed): decoding a malformed source, or one lacking a top-level
\* key, raises nothing and leaves every attribute at its initial value.
C3_DecodeFailsAsUnit ==
    (/\ out.op = "parse"
     /\ \/ out.arg.kind = "garbage"
        \/ out.arg.kind = "object" /\ TextKeys(out.arg.text) # AllFields) =>
        (out.kind = "return" /\ trc = ZeroDoc)

\* C4 (as claimed): with a signer that is not a key of core_ads, verify()
\* returns False whatever the other entries are and wherever it falls.
C4_MissingSignerReturnsFalse ==
    (/\ out.op = "verify"
     /\ \E s \in SigKeys(trc.signatures) : s \notin DOMAIN trc.core_ads) =>
        (out.kind = "return" /\ out.val = FALSE)

\* C5 (as claimed): after a document with signatures verified True, a
\* change of one attribute other than signatures makes verify() return
\* False.
C5_TamperingReturnsFalse ==
    (out.op = "verify" /\ out.arg = "tampered") =>
        (out.kind = "return" /\ out.val = FALSE)

\* Signatures dicts to compare a document against.
OtherSignatures ==
    { <<>>,
      << <<"AD1", [b64 |-> FALSE, key |-> "k1", msg |-> <<>>]>> >>,
      << <<"AD2", [b64 |-> TRUE, key |-> "k1", msg |-> <<>>]>>,
         <<"AD1", [b64 |-> TRUE, key |-> "k2", msg |-> <<>>]>> >> }

\* C6: the message verify() submits is built from the 14 attributes other
\* than signatures: a document that differs only in signatures yields the
\* same message, get_trc_dict(False) never has the key signatures and
\* get_trc_dict(True) always has it.
C6_MessageExcludesSignatures ==
    /\ \A s \in OtherSignatures :
         data_to_verify([trc EXCEPT !.signatures = s]) = data_to_verify(trc)
    /\ TextKeys(data_to_verify(trc)) = AllFields \ {"signatures"}
    /\ out.op = "get_trc_dict" =>
         /\ out.kind = "return"
         /\ ("signatures" \in DOMAIN out.val) <=> (out.arg = TRUE)

\* C6 witness: get_trc_dict(False) was called on a document that carries
\* signatures.
C6_Witness ==
    /\ out.op = "get_trc_dict" /\ out.arg = FALSE
    /\ trc.signatures # <<>>

\* C7: decoding the rendering (signatures included) of a document gives a
\* document whose 15 attributes equal those of the rendered document.
C7_RoundTrip ==
    (/\ out.op = "parse"
     /\ out.arg.kind = "object"
     /\ out.arg.text = str(prev)) =>
        /\ out.kind = "return"
        /\ \A k \in AllFields \ {"signatures"} : trc[k] = prev[k]
        /\ DictEq(trc.signatures, prev.signatures)

\* C7 witness: the rendering of a document built by from_values, with two
\* signatures held in an order that is not the sorted one, was decoded.
C7_Witness ==
    /\ out.op = "parse" /\ out.kind = "return"
    /\ out.arg.kind = "object" /\ out.arg.text = str(prev)
    /\ prev.time \in Times
    /\ Len(prev.signatures) = 2 /\ prev.signatures[1][1] = "AD2"

\* C8 (as claimed): get_public_key fails explicitly both for a subject that
\* is not a key of core_ads and for one whose certificate is malformed, and
\* returns the decoded key bytes only for a well-formed entry.
C8_ExplicitFailureInBothCases ==
    out.op = "get_public_key" =>
        IF out.arg \notin DOMAIN trc.core_ads
           \/ trc.core_ads[out.arg] \in MalformedCerts
        THEN out.kind = "raise"
        ELSE out.kind = "return" /\ out.val.type = "bytes"

\* C8 (amended): for a subject that is not a key of core_ads get_public_key
\* returns the empty string as a normal value; for a subject whose
\* certificate fails to decode an exception propagates; for a well-formed
\* entry it returns the decoded key bytes.
C8_NotFoundReturnsEmptyString ==
    out.op = "get_public_key" =>
        IF out.arg \notin DOMAIN trc.core_ads
        THEN /\ out.kind = "return"
             /\ out.val = [type |-> "str", data |-> <<>>]
        ELSE IF trc.core_ads[out.arg] \in MalformedCerts
        THEN /\ out.kind = "raise"
             /\ out.val \in {"binascii.Error", "ValueError", "KeyError"}
        ELSE /\ out.kind = "return"
             /\ out.val = [type |-> "bytes", data |-> <<KeyOf(out.arg)>>]

\* C8 witness: get_public_key was asked for a subject that is not a key of
\* a non-empty core_ads.
C8_Witness ==
    /\ out.op = "get_public_key"
    /\ out.arg \notin DOMAIN trc.core_ads
    /\ trc.core_ads # <<>>

\* The same dict in every iteration order.
Orders(sigs) ==
    { [i \in DOMAIN sigs |-> sigs[p[i]]] :
        p \in { q \in [DOMAIN sigs -> DOMAIN sigs] :
                  \A i, j \in DOMAIN sigs : i # j => q[i] # q[j] } }

\* C9 (as claimed): the outcome of verify(), return value or exception, is
\* the same for every iteration order of signatures.
C9_OrderIndependent ==
    out.op = "verify" =>
        \A o \in Orders(trc.signatures) :
            LET r == verify([trc EXCEPT !.signatures = o])
            IN  r.kind = out.kind /\ r.val = out.val

\* C10: a document without signatures verifies True whatever its other
\* attributes are.
C10_EmptySignaturesVerify ==
    (out.op = "verify" /\ trc.signatures = <<>>) =>
        (out.kind = "return" /\ out.val = TRUE)

\* C10 witness: verify() ran on a document without signatures whose
\* core_ads holds a malformed certificate.
C10_Witness ==
    /\ out.op = "verify" /\ trc.signatures = <<>>
    /\ \E s \in DOMAIN trc.core_ads : trc.core_ads[s] \in MalformedCerts

====
